---- MODULE Spec2Model ----
(***************************************************************************)
(* Iris (training/main.py): a file-backed conversation store with a        *)
(* two-tier derived memory (global facts/preferences, per-conversation     *)
(* summary and notes), a startup full scan, a background reconciler        *)
(* thread, the HTTP handlers run one at a time on the event loop, and the  *)
(* deferred post-stream task of /chat run on a worker thread.              *)
(*                                                                         *)
(* File names are sequences of one-character strings so that the name      *)
(* formatting of conv_path and the split/int parsing of the reconciler     *)
(* and of next_conversation_id are computed, not assumed.  Fact strings    *)
(* are modelled by natural numbers whose order is the string order.        *)
(***************************************************************************)
EXTENDS Integers, Sequences, FiniteSets, TLC

\* ------------------------------------------------------------------ bounds

\* Largest conversation ID a client names in a request.
MaxId == 1
\* Largest number of messages a client sends with one /chat request
\* (at least one).
MaxMsgs == 1
\* Number of HTTP requests accepted after startup.
MaxRequests == 2
\* Number of create and delete requests accepted when the conversation
\* store is run alone.
MaxStoreRequests == 4
\* Number of HTTP requests accepted in the runs that start from a prepared
\* store (two changed conversations; a transcript without messages).
MaxLiveRequests == 1
\* Number of times the reconciler's 60 s wait ends by its timeout.
MaxTicks == 1
\* Number of distinct fact strings the oracle or a client may produce.
MaxFact == 1
\* Largest content hash drawn for the snapshots given to diff_snapshots alone.
MaxHash == 2

\* ------------------------------------------------------- file names, paths

ConvPrefix == <<"c", "o", "n", "v", "_">>
JsonSuffix == <<".", "j", "s", "o", "n">>
DigitChars == <<"0", "1", "2", "3", "4", "5", "6", "7", "8", "9">>

RECURSIVE IntToStr(_)
\* f"{conv_id}" for a non-negative integer.
IntToStr(n) ==
    IF n < 10 THEN <<DigitChars[n + 1]>>
    ELSE IntToStr(n \div 10) \o <<DigitChars[(n % 10) + 1]>>

\* The file name shared by conv_path and conv_memory_path; the two
\* directories are the two maps convFiles and memFiles.
conv_file_name(conv_id) == ConvPrefix \o IntToStr(conv_id) \o JsonSuffix

conv_path(conv_id) == conv_file_name(conv_id)

conv_memory_path(conv_id) == conv_file_name(conv_id)

\* A file some other program put in the conversations directory: it starts
\* with conv_ and ends with .json but carries no integer.
StrayName == ConvPrefix \o <<"x">> \o JsonSuffix

\* The place of the first sep in s.
FirstAt(s, sep) ==
    CHOOSE k \in 1..Len(s) : s[k] = sep /\ \A j \in 1..(k - 1) : s[j] # sep

RECURSIVE Split(_, _)
\* str.split(sep) for a one-character separator.  (i and rest are bound
\* variables, so that each is computed once.)
Split(s, sep) ==
    IF \A i \in 1..Len(s) : s[i] # sep THEN <<s>>
    ELSE CHOOSE parts \in
             UNION {{<<SubSeq(s, 1, i - 1)>> \o Split(rest, sep) :
                        rest \in {SubSeq(s, i + 1, Len(s))}} :
                    i \in {FirstAt(s, sep)}} : TRUE

IsDigit(c) == \E d \in 1..10 : DigitChars[d] = c

DigitVal(c) == (CHOOSE d \in 1..10 : DigitChars[d] = c) - 1

RECURSIVE StrToInt(_)
StrToInt(s) ==
    IF s = <<>> THEN 0
    ELSE 10 * StrToInt(SubSeq(s, 1, Len(s) - 1)) + DigitVal(s[Len(s)])

\* int(stem) for the text before the first "." of the second part.
ParseStem(stem) ==
    IF stem # <<>> /\ \A i \in 1..Len(stem) : IsDigit(stem[i])
    THEN [ok |-> TRUE, err |-> "", val |-> StrToInt(stem)]
    ELSE [ok |-> FALSE, err |-> "ValueError", val |-> 0]

\* int(f.split("_")[1].split(".")[0]): the parsed ID, or the exception.
\* (The names of the model hold no sign, blank or underscore digit group;
\* parts and stem are bound variables, so that each is computed once.)
ParseConvId(f) ==
    CHOOSE id \in
        UNION {IF Len(parts) < 2
               THEN {[ok |-> FALSE, err |-> "IndexError", val |-> 0]}
               ELSE {ParseStem(stem) : stem \in {Split(parts[2], ".")[1]}} :
                  parts \in {Split(f, "_")}} : TRUE

StartsWith(s, p) == Len(s) >= Len(p) /\ SubSeq(s, 1, Len(p)) = p

EndsWith(s, p) ==
    Len(s) >= Len(p) /\ SubSeq(s, Len(s) - Len(p) + 1, Len(s)) = p

\* ------------------------------------------------- snapshots and their diff

\* diff_snapshots with "modified" decided on the whole entry, size included.
diff_snapshots_by_entry(old, new) ==
    [added    |-> DOMAIN new \ DOMAIN old,
     removed  |-> DOMAIN old \ DOMAIN new,
     modified |-> {k \in DOMAIN old \cap DOMAIN new : old[k] # new[k]}]

\* diff_snapshots: the three lists are built from sets, so their order is
\* not fixed; they are sets here and the reconciler draws an order.
diff_snapshots(old, new) ==
    [added    |-> DOMAIN new \ DOMAIN old,
     removed  |-> DOMAIN old \ DOMAIN new,
     modified |-> {k \in DOMAIN old \cap DOMAIN new :
                      old[k].hash # new[k].hash}]

\* The value of dOut before diff_snapshots was applied.
NoDiff == [done |-> FALSE, added |-> {}, removed |-> {}, modified |-> {}]

\* --------------------------------------------------------------- the state

VARIABLES
    convFiles,    \* CONV_DIR: file name -> transcript [title, msgs]
    memFiles,     \* CONV_MEMORY_DIR: file name -> [summary, notes]
    globalMem,    \* GLOBAL_MEMORY_PATH: [facts, preferences]
    memory_lock,  \* "free" or the actor holding memory_lock
    stop_event,   \* stop_event.is_set()
    main,         \* lifespan: "scan", "serving" or "shutdown"
    fs,           \* update_global_memory_full_scan: position and locals
    rec,          \* background_memory_update: position and locals
    api,          \* the event loop: the handler running, its position, its arguments
    fg,           \* update_memory_later (one deferred task): position and locals
    reqs,         \* HTTP requests still to be accepted
    hist,         \* history of the reconciler's scans, read by the properties only
    dOld, dNew, dOut   \* two snapshots and diff_snapshots of them

storeVars == <<convFiles, memFiles, globalMem>>
diffVars  == <<dOld, dNew, dOut>>
vars == <<convFiles, memFiles, globalMem, memory_lock, stop_event, main, fs,
          rec, api, fg, reqs, hist, dOld, dNew, dOut>>

\* ------------------------------------------------------------ file contents

ClientTitle == "Test"
GeneratedTitle == "Generated"
DefaultTitle == "New Conversation"

TitleCode(t) ==
    CASE t = ClientTitle -> 0
      [] t = GeneratedTitle -> 1
      [] OTHER -> 2

\* file_hash: md5 of the file's bytes, taken as collision-free on the
\* transcripts of the model: a number that determines title and messages.
file_hash(c) == 3 * c.msgs + TitleCode(c.title) + 1

\* os.path.getsize: grows with the messages, blind to the title's letters.
file_size(c) == 40 + 10 * c.msgs

\* load_json(path, default) on one of the two directories.
load_json(dir, path, default) ==
    IF path \in DOMAIN dir THEN dir[path] ELSE default

\* save_json(path, data): the whole record is replaced.
save_json(dir, path, data) ==
    [p \in DOMAIN dir \cup {path} |-> IF p = path THEN data ELSE dir[p]]

\* os.remove(path) behind os.path.exists(path).
remove_file(dir, path) == [p \in DOMAIN dir \ {path} |-> dir[p]]

NoSummary == [by |-> "", of |-> 0]

\* load_conv_memory's default record.
BlankMemory == [summary |-> NoSummary, notes |-> <<>>]

\* The transcript create_conversation writes: one greeting message.
NewTranscript(title) == [title |-> title, msgs |-> 1]

\* {} as load_json's default for a transcript: no title, no messages.
NoTranscript == [title |-> "", msgs |-> 0]

\* snapshot_directory over the files named in `names` (the listing), read
\* from the directory as it is when they are hashed.
snapshot_of(dir, names) ==
    [f \in names \cap DOMAIN dir |->
        [hash |-> file_hash(dir[f]), size |-> file_size(dir[f])]]

\* All orders of a finite set, as sequences without repetition.
Orders(S) ==
    {q \in [1..Cardinality(S) -> S] :
        \A i, j \in 1..Cardinality(S) : q[i] = q[j] => i = j}

RECURSIVE sorted(_)
\* sorted(set)
sorted(S) ==
    IF S = {} THEN <<>>
    ELSE LET m == CHOOSE x \in S : \A y \in S : x <= y
         IN  <<m>> \o sorted(S \ {m})

\* next_conversation_id as the number of conversations there are.
next_conversation_id_by_count(dir) ==
    Cardinality({g \in DOMAIN dir : StartsWith(g, ConvPrefix) /\ ParseConvId(g).ok})

\* next_conversation_id: max+1 over the files that start with conv_ and
\* whose ID parses, 0 when there is none.
next_conversation_id(dir) ==
    LET ids == {ParseConvId(f).val :
                   f \in {g \in DOMAIN dir :
                             StartsWith(g, ConvPrefix) /\ ParseConvId(g).ok}}
    IN  IF ids = {} THEN 0
        ELSE (CHOOSE m \in ids : \A k \in ids : k <= m) + 1

\* ------------------------------------------------------------ initial state

ConvIds == 0..MaxId
Facts == 1..MaxFact

\* The store a previous run left behind: the conversations 0..MaxId as
\* create_conversation writes them.
CreatedConvs ==
    [f \in {conv_path(c) : c \in ConvIds} |-> NewTranscript(ClientTitle)]

CreatedMems == [f \in {conv_memory_path(c) : c \in ConvIds} |-> BlankMemory]

FsIdle == [pc |-> "list", todo |-> <<>>, file |-> <<>>,
           all_facts |-> {}, all_preferences |-> <<>>]

RecOff == [pc |-> "off", last |-> <<>>, names |-> {}, cur |-> <<>>,
           changed |-> <<>>, i |-> 1, conv_id |-> 0, msgs |-> 0,
           mem |-> BlankMemory, ticks |-> 0]

ApiIdle == [pc |-> "idle", conv_id |-> 0, content |-> 0]

FgIdle == [pc |-> "idle", conv_id |-> 0, msgs |-> 0, title |-> "",
           meta |-> [title |-> "", summary |-> NoSummary]]

\* dirty: a transcript file was written or removed since the reconciler
\* last retained a baseline; atScan: the snapshot its last scan took;
\* raised: the conversations whose oracle call raised in the current pass;
\* stopIdle: stop_event was set while the reconciler was in its wait;
\* raced: the conversations whose memory record the deferred task saved
\* while the current pass ran; okFacts: the facts of the replies the full
\* scan folded in without an exception; failed: the conversations whose
\* oracle call raised in the pass before the current one; skipped: a tick
\* did not scan (the lock was held or the snapshot failed) since the
\* baseline was last retained.
HistInit == [dirty |-> FALSE, atScan |-> <<>>, raised |-> {},
             stopIdle |-> FALSE, raced |-> {}, okFacts |-> {},
             failed |-> {}, skipped |-> FALSE]

Init ==
    /\ convFiles = CreatedConvs
    /\ memFiles = CreatedMems
    /\ globalMem = [facts |-> <<>>, preferences |-> <<>>]
    /\ memory_lock = "free"
    /\ stop_event = FALSE
    /\ main = "scan"
    /\ fs = FsIdle
    /\ rec = RecOff
    /\ api = ApiIdle
    /\ fg = FgIdle
    /\ reqs = MaxRequests
    /\ hist = HistInit
    /\ dOld = <<>> /\ dNew = <<>> /\ dOut = NoDiff

\* ------------------------------------- startup: update_global_memory_full_scan

\* What the oracle's reply amounts to in the full scan: the call or
\* json.loads raises; or the reply is a JSON object whose facts are a list
\* of strings and whose preferences are an object ("ok") or are not
\* ("badprefs": .items() raises after the facts were added).
FsReplies ==
    {[kind |-> "raise", facts |-> {}, prefs |-> <<>>]}
    \cup {[kind |-> k, facts |-> F, prefs |-> <<>>] :
            k \in {"ok", "badprefs"}, F \in SUBSET Facts}

\* for conv_file in os.listdir(CONV_DIR): the listing, in some order.
FsList ==
    /\ main = "scan" /\ fs.pc = "list"
    /\ \E q \in Orders(DOMAIN convFiles) :
          fs' = [fs EXCEPT !.pc = "next", !.todo = q]
    /\ UNCHANGED <<storeVars, memory_lock, stop_event, main, rec, api, fg,
                   reqs, hist, diffVars>>

\* One turn of the loop up to the oracle call: the name filter, the load,
\* the skip of a transcript without messages.
FsNext ==
    /\ main = "scan" /\ fs.pc = "next"
    /\ IF fs.todo = <<>>
       THEN fs' = [fs EXCEPT !.pc = "lock"]
       ELSE LET f == Head(fs.todo)
                conv_data == load_json(convFiles, f, NoTranscript)
            IN  IF /\ StartsWith(f, ConvPrefix) /\ EndsWith(f, JsonSuffix)
                   /\ conv_data.msgs > 0
                THEN fs' = [fs EXCEPT !.pc = "oracle", !.file = f,
                                      !.todo = Tail(fs.todo)]
                ELSE fs' = [fs EXCEPT !.todo = Tail(fs.todo)]
    /\ UNCHANGED <<storeVars, memory_lock, stop_event, main, rec, api, fg,
                   reqs, hist, diffVars>>

\* The fold of one reply into all_facts and all_preferences.
FsFold(r) ==
    [fs EXCEPT !.pc = "next", !.file = <<>>,
               !.all_facts = IF r.kind = "raise" THEN @ ELSE @ \cup r.facts,
               !.all_preferences =
                   IF r.kind = "ok"
                   THEN [k \in DOMAIN @ \cup DOMAIN r.prefs |->
                            IF k \in DOMAIN r.prefs THEN r.prefs[k] ELSE @[k]]
                   ELSE @]

\* ollama.chat returns (or raises) and the reply is folded in.
FsOracle ==
    /\ main = "scan" /\ fs.pc = "oracle"
    /\ \E r \in FsReplies :
          /\ fs' = FsFold(r)
          /\ hist' = IF r.kind = "ok"
                     THEN [hist EXCEPT !.okFacts = @ \cup r.facts]
                     ELSE hist
    /\ UNCHANGED <<storeVars, memory_lock, stop_event, main, rec, api, fg,
                   reqs, diffVars>>

\* with memory_lock:
FsLock ==
    /\ main = "scan" /\ fs.pc = "lock"
    /\ memory_lock = "free"
    /\ memory_lock' = "main"
    /\ fs' = [fs EXCEPT !.pc = "save"]
    /\ UNCHANGED <<storeVars, stop_event, main, rec, api, fg, reqs, hist,
                   diffVars>>

\* The record the full scan saves.
FsRecord == [facts |-> sorted(fs.all_facts), preferences |-> fs.all_preferences]

\* save_json(GLOBAL_MEMORY_PATH, ...), the lock released, and lifespan goes
\* on: the reconciler thread is started and the application serves.
FsSave ==
    /\ main = "scan" /\ fs.pc = "save"
    /\ globalMem' = FsRecord
    /\ memory_lock' = "free"
    /\ fs' = [FsIdle EXCEPT !.pc = "done"]
    /\ main' = "serving"
    /\ rec' = [rec EXCEPT !.pc = "init"]
    /\ hist' = [hist EXCEPT !.okFacts = {}]
    /\ UNCHANGED <<convFiles, memFiles, stop_event, api, fg, reqs, diffVars>>

FullScan == FsList \/ FsNext \/ FsOracle \/ FsLock \/ FsSave

\* ----------------------------------- the reconciler: background_memory_update

\* What ollama.chat returns for the summarize prompt over `msgs` messages.
Summarize(msgs) == [by |-> "summarize", of |-> msgs]

\* Where the reconciler goes after one file of the changed list: the next.
RecAdvance(r) == [r EXCEPT !.pc = "for", !.i = @ + 1]

\* os.listdir of snapshot_directory at line 221.
RecInitList ==
    /\ rec.pc = "init"
    /\ rec' = [rec EXCEPT !.pc = "init_hash", !.names = DOMAIN convFiles]
    /\ UNCHANGED <<storeVars, memory_lock, stop_event, main, fs, api, fg,
                   reqs, hist, diffVars>>

\* The files of the listing are hashed.  A file removed since the listing
\* is skipped (isfile is false) or, removed between isfile and open, makes
\* open raise: line 221 is outside every try, so the thread ends.
RecInitHash ==
    /\ rec.pc = "init_hash"
    /\ \/ /\ rec' = [rec EXCEPT !.pc = "loop", !.names = {},
                                !.last = snapshot_of(convFiles, rec.names)]
          /\ hist' = [hist EXCEPT !.atScan = snapshot_of(convFiles, rec.names)]
       \/ /\ rec.names \ DOMAIN convFiles # {}
          /\ rec' = [rec EXCEPT !.pc = "crashed", !.names = {}]
          /\ hist' = hist
    /\ UNCHANGED <<storeVars, memory_lock, stop_event, main, fs, api, fg,
                   reqs, diffVars>>

\* RecLoop as "while True:": the loop never looks at stop_event.
RecLoopForever ==
    /\ rec.pc = "loop"
    /\ rec' = [rec EXCEPT !.pc = "check"]
    /\ UNCHANGED <<storeVars, memory_lock, stop_event, main, fs, api, fg,
                   reqs, hist, diffVars>>

\* while not stop_event.is_set():
RecLoop ==
    /\ rec.pc = "loop"
    /\ rec' = [rec EXCEPT !.pc = IF stop_event THEN "done" ELSE "check"]
    /\ UNCHANGED <<storeVars, memory_lock, stop_event, main, fs, api, fg,
                   reqs, hist, diffVars>>

\* RecCheck that takes a fresh snapshot as the baseline when it skips.
RecCheckRebase ==
    /\ rec.pc = "check"
    /\ rec' = IF memory_lock = "free" THEN [rec EXCEPT !.pc = "list"]
              ELSE [rec EXCEPT !.pc = "wait",
                               !.last = snapshot_of(convFiles, DOMAIN convFiles)]
    /\ hist' = IF memory_lock = "free" THEN hist
               ELSE [hist EXCEPT !.skipped = TRUE]
    /\ UNCHANGED <<storeVars, memory_lock, stop_event, main, fs, api, fg,
                   reqs, diffVars>>

\* if not memory_lock.locked(): a held lock skips the tick.
RecCheck ==
    /\ rec.pc = "check"
    /\ rec' = [rec EXCEPT !.pc = IF memory_lock = "free" THEN "list" ELSE "wait"]
    /\ hist' = IF memory_lock = "free" THEN hist
               ELSE [hist EXCEPT !.skipped = TRUE]
    /\ UNCHANGED <<storeVars, memory_lock, stop_event, main, fs, api, fg,
                   reqs, diffVars>>

\* os.listdir of snapshot_directory at line 225.
RecList ==
    /\ rec.pc = "list"
    /\ rec' = [rec EXCEPT !.pc = "hash", !.names = DOMAIN convFiles]
    /\ UNCHANGED <<storeVars, memory_lock, stop_event, main, fs, api, fg,
                   reqs, hist, diffVars>>

\* The changed list: added then modified, each in some order.
ChangedLists(diff) ==
    {a \o m : a \in Orders(diff.added), m \in Orders(diff.modified)}

\* The rest of snapshot_directory, diff_snapshots and the changed list; or
\* open raises on a removed file and the outer except skips to the wait.
RecHash ==
    /\ rec.pc = "hash"
    /\ \/ LET current_snapshot == snapshot_of(convFiles, rec.names)
              diff == diff_snapshots(rec.last, current_snapshot)
          IN  /\ \E q \in ChangedLists(diff) :
                    rec' = [rec EXCEPT !.pc = "for", !.names = {},
                                       !.cur = current_snapshot,
                                       !.changed = q, !.i = 1]
              /\ hist' = [hist EXCEPT !.atScan = current_snapshot]
       \/ /\ rec.names \ DOMAIN convFiles # {}
          /\ rec' = [rec EXCEPT !.pc = "wait", !.names = {}]
          /\ hist' = [hist EXCEPT !.skipped = TRUE]
    /\ UNCHANGED <<storeVars, memory_lock, stop_event, main, fs, api, fg,
                   reqs, diffVars>>

\* RecFor without the break at line 239: stop_event is looked at once per
\* tick only.
RecForNoBreak ==
    /\ rec.pc = "for"
    /\ IF rec.i > Len(rec.changed)
       THEN rec' = [rec EXCEPT !.pc = "retain"]
       ELSE LET id == ParseConvId(rec.changed[rec.i])
            IN  IF id.ok
                THEN rec' = [rec EXCEPT !.pc = "load_conv", !.conv_id = id.val]
                ELSE rec' = RecAdvance(rec)
    /\ UNCHANGED <<storeVars, memory_lock, stop_event, main, fs, api, fg,
                   reqs, hist, diffVars>>

\* for conv_file in changed_conv_files: the end of the list, the break on
\* stop_event, and the parse of the conversation ID (a name that does not
\* parse is logged and the loop goes on).
RecFor ==
    /\ rec.pc = "for"
    /\ IF rec.i > Len(rec.changed) \/ stop_event
       THEN rec' = [rec EXCEPT !.pc = "retain"]
       ELSE LET id == ParseConvId(rec.changed[rec.i])
            IN  IF id.ok
                THEN rec' = [rec EXCEPT !.pc = "load_conv", !.conv_id = id.val]
                ELSE rec' = RecAdvance(rec)
    /\ UNCHANGED <<storeVars, memory_lock, stop_event, main, fs, api, fg,
                   reqs, hist, diffVars>>

\* RecLoadConv without the test of line 245.
RecLoadConvAlways ==
    /\ rec.pc = "load_conv"
    /\ LET conv_data == load_json(convFiles, rec.changed[rec.i], NoTranscript)
       IN  rec' = [rec EXCEPT !.pc = "load_mem", !.msgs = conv_data.msgs]
    /\ UNCHANGED <<storeVars, memory_lock, stop_event, main, fs, api, fg,
                   reqs, hist, diffVars>>

\* conv_data = load_json(os.path.join(CONV_DIR, conv_file), {}); a
\* transcript without messages is passed over.
RecLoadConv ==
    /\ rec.pc = "load_conv"
    /\ LET conv_data == load_json(convFiles, rec.changed[rec.i], NoTranscript)
       IN  IF conv_data.msgs > 0
           THEN rec' = [rec EXCEPT !.pc = "load_mem", !.msgs = conv_data.msgs]
           ELSE rec' = [RecAdvance(rec) EXCEPT !.conv_id = 0]
    /\ UNCHANGED <<storeVars, memory_lock, stop_event, main, fs, api, fg,
                   reqs, hist, diffVars>>

\* RecLoadMem with memory_lock taken before the oracle is called.
RecLoadMemUnderLock ==
    /\ rec.pc = "load_mem"
    /\ memory_lock = "free"
    /\ memory_lock' = "rec"
    /\ rec' = [rec EXCEPT !.pc = "oracle",
                          !.mem = load_json(memFiles, conv_memory_path(rec.conv_id),
                                            BlankMemory)]
    /\ UNCHANGED <<storeVars, stop_event, main, fs, api, fg, reqs, hist,
                   diffVars>>

\* conv_memory_data = load_json(conv_memory_path(conv_id), {...}), read
\* without the lock, and update_conv_memory sends its prompt.
RecLoadMem ==
    /\ rec.pc = "load_mem"
    /\ rec' = [rec EXCEPT !.pc = "oracle",
                          !.mem = load_json(memFiles, conv_memory_path(rec.conv_id),
                                            BlankMemory)]
    /\ UNCHANGED <<storeVars, memory_lock, stop_event, main, fs, api, fg,
                   reqs, hist, diffVars>>

\* The reconciler after its oracle call returned `result`.
RecAfterOracle(result) ==
    [rec EXCEPT !.pc = "lock", !.mem = [@ EXCEPT !.summary = result]]

\* ollama.chat returns: memory["summary"] = result["message"]["content"].
RecOracleReturn ==
    /\ rec.pc = "oracle"
    /\ rec' = RecAfterOracle(Summarize(rec.msgs))
    /\ UNCHANGED <<storeVars, memory_lock, stop_event, main, fs, api, fg,
                   reqs, hist, diffVars>>

\* RecAfterRaise falling back to an empty summary and saving it.
RecAfterRaiseSaveEmpty ==
    [rec EXCEPT !.pc = "lock", !.mem = [@ EXCEPT !.summary = NoSummary]]

\* RecAfterRaise with the try around the whole for loop: the batch ends.
RecAfterRaiseEndBatch ==
    [rec EXCEPT !.pc = "retain", !.conv_id = 0, !.msgs = 0, !.mem = BlankMemory]

\* The reconciler after its oracle call raised: the except at line 254.
RecAfterRaise ==
    [RecAdvance(rec) EXCEPT !.conv_id = 0, !.msgs = 0, !.mem = BlankMemory]

\* ollama.chat raises.
RecOracleRaise ==
    /\ rec.pc = "oracle"
    /\ rec' = RecAfterRaise
    /\ hist' = [hist EXCEPT !.raised = @ \cup {rec.conv_id}]
    /\ UNCHANGED <<storeVars, memory_lock, stop_event, main, fs, api, fg,
                   reqs, diffVars>>

\* The reconciler is between the snapshot of a pass and line 257.
InPass ==
    rec.pc \in {"hash", "for", "load_conv", "load_mem", "oracle", "lock",
                "save", "retain"}

\* with memory_lock: (update_conv_memory)
RecLock ==
    /\ rec.pc = "lock"
    /\ memory_lock = "free"
    /\ memory_lock' = "rec"
    /\ rec' = [rec EXCEPT !.pc = "save"]
    /\ UNCHANGED <<storeVars, stop_event, main, fs, api, fg, reqs, hist,
                   diffVars>>

\* RecSave with the record read again under the lock and only its summary
\* replaced.
RecSaveReloaded ==
    /\ rec.pc = "save"
    /\ LET path == conv_memory_path(rec.conv_id)
           memory == load_json(memFiles, path, BlankMemory)
       IN  memFiles' = save_json(memFiles, path,
                                 [memory EXCEPT !.summary = rec.mem.summary])
    /\ memory_lock' = "free"
    /\ rec' = [RecAdvance(rec) EXCEPT !.conv_id = 0, !.msgs = 0,
                                      !.mem = BlankMemory]
    /\ UNCHANGED <<convFiles, globalMem, stop_event, main, fs, api, fg, reqs,
                   hist, diffVars>>

\* save_json(conv_memory_path(conv_id), memory), the lock released, the
\* one-second sleep, and the loop goes on.
RecSave ==
    /\ rec.pc = "save"
    /\ memFiles' = save_json(memFiles, conv_memory_path(rec.conv_id), rec.mem)
    /\ memory_lock' = "free"
    /\ rec' = [RecAdvance(rec) EXCEPT !.conv_id = 0, !.msgs = 0,
                                      !.mem = BlankMemory]
    /\ UNCHANGED <<convFiles, globalMem, stop_event, main, fs, api, fg, reqs,
                   hist, diffVars>>

\* RecBaseline that keeps the old baseline when an oracle call raised in
\* the pass, so that the failed conversations are tried again.
RecBaselineOnSuccess == IF hist.raised = {} THEN rec.cur ELSE rec.last

\* RecBaseline without line 257: the first snapshot stays the baseline.
RecBaselineKept == rec.last

\* The baseline the reconciler keeps after a scan.
RecBaseline == rec.cur

\* RecRetain that also removes the memory records of the conversations
\* the diff reports as removed.
RecRetainPruning ==
    /\ rec.pc = "retain"
    /\ rec' = [rec EXCEPT !.pc = "wait", !.last = RecBaseline, !.cur = <<>>,
                          !.changed = <<>>, !.i = 1]
    /\ hist' = [hist EXCEPT !.dirty = FALSE, !.raised = {}, !.raced = {},
                            !.failed = hist.raised, !.skipped = FALSE]
    /\ memFiles' = [p \in DOMAIN memFiles \
                            diff_snapshots(rec.last, rec.cur).removed |->
                        memFiles[p]]
    /\ UNCHANGED <<convFiles, globalMem, memory_lock, stop_event, main, fs,
                   api, fg, reqs, diffVars>>

\* last_snapshot = current_snapshot
RecRetain ==
    /\ rec.pc = "retain"
    /\ rec' = [rec EXCEPT !.pc = "wait", !.last = RecBaseline, !.cur = <<>>,
                          !.changed = <<>>, !.i = 1]
    /\ hist' = [hist EXCEPT !.dirty = FALSE, !.raised = {}, !.raced = {},
                            !.failed = hist.raised, !.skipped = FALSE]
    /\ UNCHANGED <<storeVars, memory_lock, stop_event, main, fs, api, fg,
                   reqs, diffVars>>

\* stop_event.wait(60) returns: the timeout ran out, or the event is set.
RecWait ==
    /\ rec.pc = "wait"
    /\ \/ /\ rec.ticks < MaxTicks
          /\ rec' = [rec EXCEPT !.pc = "loop", !.ticks = @ + 1]
       \/ /\ stop_event
          /\ rec' = [rec EXCEPT !.pc = "loop"]
    /\ UNCHANGED <<storeVars, memory_lock, stop_event, main, fs, api, fg,
                   reqs, hist, diffVars>>

\* The while loop of background_memory_update.
RecTicks ==
    \/ RecLoop \/ RecCheck \/ RecList
    \/ RecHash \/ RecFor \/ RecLoadConv \/ RecLoadMem \/ RecOracleReturn
    \/ RecOracleRaise \/ RecLock \/ RecSave \/ RecRetain \/ RecWait

Reconciler == RecInitList \/ RecInitHash \/ RecTicks

\* --------------------------------------------- the handlers of the event loop

\* A request is taken when the loop is idle, the application serves and the
\* request budget is not spent.  A handler that opens with "with
\* memory_lock:" blocks the whole event loop until it has the lock, so its
\* request is taken here at the moment the lock is free.
Accepting == main = "serving" /\ api.pc = "idle" /\ reqs > 0

\* hist.dirty: a transcript file was written or removed since the
\* reconciler last retained a baseline.
Touched == [hist EXCEPT !.dirty = TRUE]

\* POST /conversation: conv_id = next_conversation_id()
CreateBegin ==
    /\ Accepting
    /\ api' = [api EXCEPT !.pc = "create_conv",
                          !.conv_id = next_conversation_id(convFiles)]
    /\ reqs' = reqs - 1
    /\ UNCHANGED <<storeVars, memory_lock, stop_event, main, fs, rec, fg,
                   hist, diffVars>>

\* save_json(conv_path(conv_id), {...})
CreateSaveConv ==
    /\ api.pc = "create_conv"
    /\ convFiles' = save_json(convFiles, conv_path(api.conv_id),
                              NewTranscript(ClientTitle))
    /\ api' = [api EXCEPT !.pc = "create_mem"]
    /\ hist' = Touched
    /\ UNCHANGED <<memFiles, globalMem, memory_lock, stop_event, main, fs,
                   rec, fg, reqs, diffVars>>

\* save_json(conv_memory_path(conv_id), {...}): memory_lock is not taken.
CreateSaveMem ==
    /\ api.pc = "create_mem"
    /\ memFiles' = save_json(memFiles, conv_memory_path(api.conv_id), BlankMemory)
    /\ api' = ApiIdle
    /\ UNCHANGED <<convFiles, globalMem, memory_lock, stop_event, main, fs,
                   rec, fg, reqs, hist, diffVars>>

\* The IDs a client names: 0..MaxId and those of the transcripts it is
\* shown by GET /conversations.
KnownIds == ConvIds \cup {ParseConvId(f).val : f \in {g \in DOMAIN convFiles : ParseConvId(g).ok}}

\* DELETE /conversation/{conv_id}: with memory_lock:
DeleteBegin ==
    /\ Accepting
    /\ memory_lock = "free"
    /\ memory_lock' = "api"
    /\ \E c \in KnownIds : api' = [api EXCEPT !.pc = "del", !.conv_id = c]
    /\ reqs' = reqs - 1
    /\ UNCHANGED <<storeVars, stop_event, main, fs, rec, fg,
                   hist, diffVars>>

\* os.remove of conv_path(conv_id) and of conv_memory_path(conv_id), each
\* if it exists; the lock is released.
DeleteFiles ==
    /\ api.pc = "del"
    /\ convFiles' = remove_file(convFiles, conv_path(api.conv_id))
    /\ memFiles' = remove_file(memFiles, conv_memory_path(api.conv_id))
    /\ memory_lock' = "free"
    /\ api' = ApiIdle
    /\ hist' = IF conv_path(api.conv_id) \in DOMAIN convFiles
               THEN Touched ELSE hist
    /\ UNCHANGED <<globalMem, stop_event, main, fs, rec, fg, reqs, diffVars>>

\* POST /memory/global: with memory_lock:
GlobalBegin ==
    /\ Accepting
    /\ memory_lock = "free"
    /\ memory_lock' = "api"
    /\ \E f \in Facts : api' = [api EXCEPT !.pc = "glob_save", !.content = f]
    /\ reqs' = reqs - 1
    /\ UNCHANGED <<storeVars, stop_event, main, fs, rec, fg,
                   hist, diffVars>>

\* mem["facts"].append(payload.content) on the loaded record.
add_global_memory(mem, content) ==
    [mem EXCEPT !.facts = Append(@, content)]

\* load_global_memory, append, save_json; the lock is released.
GlobalSave ==
    /\ api.pc = "glob_save"
    /\ globalMem' = add_global_memory(globalMem, api.content)
    /\ memory_lock' = "free"
    /\ api' = ApiIdle
    /\ UNCHANGED <<convFiles, memFiles, stop_event, main, fs, rec, fg, reqs,
                   hist, diffVars>>

NoteText == "note"

\* POST /memory/conversation/{conv_id}: with memory_lock:
NoteBegin ==
    /\ Accepting
    /\ memory_lock = "free"
    /\ memory_lock' = "api"
    /\ \E c \in ConvIds : api' = [api EXCEPT !.pc = "note_save", !.conv_id = c]
    /\ reqs' = reqs - 1
    /\ UNCHANGED <<storeVars, stop_event, main, fs, rec, fg,
                   hist, diffVars>>

\* mem["notes"].append(payload.content) on the loaded record.
add_conversation_memory(mem, content) ==
    [mem EXCEPT !.notes = Append(@, content)]

\* load_conv_memory, append, save_json; the lock is released.
NoteSave ==
    /\ api.pc = "note_save"
    /\ LET path == conv_memory_path(api.conv_id)
           mem == load_json(memFiles, path, BlankMemory)
       IN  memFiles' = save_json(memFiles, path,
                                 add_conversation_memory(mem, NoteText))
    /\ memory_lock' = "free"
    /\ api' = ApiIdle
    /\ UNCHANGED <<convFiles, globalMem, stop_event, main, fs, rec, fg, reqs,
                   hist, diffVars>>

\* POST /chat, with data.conversation and len(data.messages) from the
\* client; one deferred task at a time.  with memory_lock:
ChatBegin ==
    /\ Accepting
    /\ memory_lock = "free"
    /\ memory_lock' = "api"
    /\ fg.pc = "idle"
    /\ \E c \in ConvIds, n \in 1..MaxMsgs :
          api' = [api EXCEPT !.pc = "chat_read", !.conv_id = c, !.content = n]
    /\ reqs' = reqs - 1
    /\ UNCHANGED <<storeVars, stop_event, main, fs, rec, fg,
                   hist, diffVars>>

\* The two memory records are read, the lock is released, the deferred
\* task is scheduled and the reply starts to stream.
ChatRead ==
    /\ api.pc = "chat_read"
    /\ memory_lock' = "free"
    /\ fg' = [FgIdle EXCEPT !.pc = "stream", !.conv_id = api.conv_id,
                            !.msgs = api.content]
    /\ api' = ApiIdle
    /\ UNCHANGED <<storeVars, stop_event, main, fs, rec, reqs, hist, diffVars>>

Handlers ==
    \/ CreateBegin \/ CreateSaveConv \/ CreateSaveMem
    \/ DeleteBegin \/ DeleteFiles
    \/ GlobalBegin \/ GlobalSave
    \/ NoteBegin \/ NoteSave
    \/ ChatBegin \/ ChatRead

\* ------------------------------------- the deferred task: update_memory_later

\* What ollama.chat returns for the title-and-summary prompt.
TitleSummary(msgs) == [by |-> "title_summary", of |-> msgs]

\* generate_title_and_summary's result for a reply that parses: every
\* field is there ("full"), or none is and the defaults apply ("bare").
generate_title_and_summary(kind, msgs) ==
    IF kind = "full"
    THEN [title |-> GeneratedTitle, summary |-> TitleSummary(msgs)]
    ELSE [title |-> DefaultTitle, summary |-> NoSummary]

\* The replies that parse, as the oracle of the model gives them.
FgKinds == {"full"}

\* conv_data.get("title", "New Conversation")
TitleOf(conv_data) ==
    IF conv_data.title = "" THEN DefaultTitle ELSE conv_data.title

\* The stream ended and the task starts: the assistant reply is appended
\* to data.messages and the transcript is loaded.
FgStart ==
    /\ fg.pc = "stream"
    /\ fg' = [fg EXCEPT !.pc = "oracle", !.msgs = @ + 1,
                        !.title = TitleOf(load_json(convFiles,
                                             conv_path(fg.conv_id), NoTranscript))]
    /\ UNCHANGED <<storeVars, memory_lock, stop_event, main, fs, rec, api,
                   reqs, hist, diffVars>>

\* ollama_stream raises while the reply streams: the task never runs.
FgStreamRaise ==
    /\ fg.pc = "stream"
    /\ fg' = FgIdle
    /\ UNCHANGED <<storeVars, memory_lock, stop_event, main, fs, rec, api,
                   reqs, hist, diffVars>>

\* generate_title_and_summary returns.
FgOracleReturn ==
    /\ fg.pc = "oracle"
    /\ \E kind \in FgKinds :
          fg' = [fg EXCEPT !.pc = "save_conv",
                           !.meta = generate_title_and_summary(kind, fg.msgs)]
    /\ UNCHANGED <<storeVars, memory_lock, stop_event, main, fs, rec, api,
                   reqs, hist, diffVars>>

\* FgAfterRaise without the try: the exception ends the task.
FgAfterRaiseAbort == FgIdle

\* The deferred task after generate_title_and_summary raised: meta falls
\* back to the loaded title and an empty summary.
FgAfterRaise ==
    [fg EXCEPT !.pc = "save_conv",
               !.meta = [title |-> fg.title, summary |-> NoSummary]]

\* generate_title_and_summary raises (ollama.chat, json.loads or .get).
FgOracleRaise ==
    /\ fg.pc = "oracle"
    /\ fg' = FgAfterRaise
    /\ UNCHANGED <<storeVars, memory_lock, stop_event, main, fs, rec, api,
                   reqs, hist, diffVars>>

\* generate_title_and_summary returns, or raises and meta falls back to
\* the loaded title and an empty summary.
FgOracle == FgOracleReturn \/ FgOracleRaise

\* save_json(path, {...}): the transcript, without the lock.
FgSaveConv ==
    /\ fg.pc = "save_conv"
    /\ convFiles' = save_json(convFiles, conv_path(fg.conv_id),
                              [title |-> fg.meta.title, msgs |-> fg.msgs])
    /\ fg' = [fg EXCEPT !.pc = "lock"]
    /\ hist' = Touched
    /\ UNCHANGED <<memFiles, globalMem, memory_lock, stop_event, main, fs,
                   rec, api, reqs, diffVars>>

FgLock ==
    /\ fg.pc = "lock"
    /\ memory_lock = "free"
    /\ memory_lock' = "fg"
    /\ fg' = [fg EXCEPT !.pc = "save_mem"]
    /\ UNCHANGED <<storeVars, stop_event, main, fs, rec, api, reqs, hist,
                   diffVars>>

\* The memory record the deferred task saves.
FgMemory == [summary |-> fg.meta.summary, notes |-> <<>>]

\* save_json(conv_memory_path(data.conversation), {...}); lock released.
FgSaveMem ==
    /\ fg.pc = "save_mem"
    /\ memFiles' = save_json(memFiles, conv_memory_path(fg.conv_id), FgMemory)
    /\ memory_lock' = "free"
    /\ fg' = FgIdle
    /\ hist' = IF InPass THEN [hist EXCEPT !.raced = @ \cup {fg.conv_id}]
               ELSE hist
    /\ UNCHANGED <<convFiles, globalMem, stop_event, main, fs, rec, api, reqs,
                   diffVars>>

Deferred ==
    FgStart \/ FgStreamRaise \/ FgOracle \/ FgSaveConv \/ FgLock \/ FgSaveMem

\* ------------------------------------------------------------ environment

\* lifespan after the yield: stop_event.set()
Shutdown ==
    /\ main = "serving"
    /\ stop_event' = TRUE
    /\ main' = "shutdown"
    /\ hist' = [hist EXCEPT !.stopIdle = (rec.pc = "wait")]
    /\ UNCHANGED <<storeVars, memory_lock, fs, rec, api, fg, reqs, diffVars>>

\* Another program drops a file into CONV_DIR: every regular file there is
\* listed by snapshot_directory.
StrayWrite ==
    /\ main = "serving"
    /\ StrayName \notin DOMAIN convFiles
    /\ convFiles' = save_json(convFiles, StrayName, NewTranscript(ClientTitle))
    /\ hist' = Touched
    /\ UNCHANGED <<memFiles, globalMem, memory_lock, stop_event, main, fs,
                   rec, api, fg, reqs, diffVars>>

Next == FullScan \/ Reconciler \/ Handlers \/ Deferred \/ Shutdown \/ StrayWrite

Spec == Init /\ [][Next]_vars

\* The steps that end a critical section of memory_lock while the
\* application serves.
Releases ==
    RecSave \/ DeleteFiles \/ GlobalSave \/ NoteSave \/ ChatRead \/ FgSaveMem

\* The conversations 0..MaxId after a /chat on each of them: the deferred
\* task gave each a generated title, the reply and its summary.
ChattedConvs ==
    [f \in {conv_path(c) : c \in ConvIds} |->
        [title |-> GeneratedTitle, msgs |-> MaxMsgs + 1]]

ChattedMems ==
    [f \in {conv_memory_path(c) : c \in ConvIds} |->
        [summary |-> TitleSummary(MaxMsgs + 1), notes |-> <<>>]]

\* The snapshot of the store as create_conversation left it.
CreatedSnapshot == snapshot_of(CreatedConvs, DOMAIN CreatedConvs)

\* The application serves; the reconciler's first scan found nothing
\* changed and it waits; every conversation has had a /chat since.
LiveStart ==
    /\ convFiles = ChattedConvs
    /\ memFiles = ChattedMems
    /\ globalMem = [facts |-> <<>>, preferences |-> <<>>]
    /\ memory_lock = "free"
    /\ stop_event = FALSE
    /\ main = "serving"
    /\ fs = [FsIdle EXCEPT !.pc = "done"]
    /\ rec = [RecOff EXCEPT !.pc = "wait", !.last = CreatedSnapshot]
    /\ api = ApiIdle
    /\ fg = FgIdle
    /\ hist = [HistInit EXCEPT !.dirty = TRUE, !.atScan = CreatedSnapshot]
    /\ dOld = <<>> /\ dNew = <<>> /\ dOut = NoDiff

InitLive == LiveStart /\ reqs = MaxLiveRequests

NextLive == RecTicks \/ Handlers \/ Deferred \/ Shutdown \/ StrayWrite

\* The reconciler thread is scheduled, its oracle calls end (ollama.chat
\* returns or raises), its wait ends, and whoever holds memory_lock leaves
\* its with block.
SpecLive ==
    InitLive /\ [][NextLive]_vars /\ WF_vars(RecTicks) /\ WF_vars(Releases)

\* -------------------------------------- a store with an empty transcript

\* A transcript whose "messages" is the empty list.
EmptyTranscript(title) == [title |-> title, msgs |-> 0]

\* The store at startup: conversation 0 as create_conversation wrote it,
\* the others with their message list emptied.
EmptiedConvs ==
    [f \in {conv_path(c) : c \in ConvIds} |->
        IF f = conv_path(0) THEN NewTranscript(ClientTitle)
        ELSE EmptyTranscript(ClientTitle)]

InitEmpty ==
    /\ convFiles = EmptiedConvs
    /\ memFiles = CreatedMems
    /\ globalMem = [facts |-> <<>>, preferences |-> <<>>]
    /\ memory_lock = "free"
    /\ stop_event = FALSE
    /\ main = "scan"
    /\ fs = FsIdle
    /\ rec = RecOff
    /\ api = ApiIdle
    /\ fg = FgIdle
    /\ reqs = MaxLiveRequests
    /\ hist = HistInit
    /\ dOld = <<>> /\ dNew = <<>> /\ dOut = NoDiff

\* Another program rewrites a transcript with an empty message list.
EmptyWrite ==
    /\ main = "serving"
    /\ \E f \in DOMAIN convFiles :
          /\ convFiles[f].msgs > 0
          /\ convFiles' = save_json(convFiles, f,
                                    EmptyTranscript(convFiles[f].title))
    /\ hist' = Touched
    /\ UNCHANGED <<memFiles, globalMem, memory_lock, stop_event, main, fs,
                   rec, api, fg, reqs, diffVars>>

NextEmpty == Next \/ EmptyWrite

SpecEmpty == InitEmpty /\ [][NextEmpty]_vars

\* ------------------------------------------------- diff_snapshots on its own

DiffNames == {conv_path(0), conv_path(1), StrayName}

\* Every snapshot over DiffNames with hashes 1..MaxHash and two sizes.
DiffSnapshots ==
    UNION {[S -> [hash : 1..MaxHash, size : {50, 60}]] : S \in SUBSET DiffNames}

InitDiff ==
    /\ convFiles = CreatedConvs
    /\ memFiles = CreatedMems
    /\ globalMem = [facts |-> <<>>, preferences |-> <<>>]
    /\ memory_lock = "free"
    /\ stop_event = FALSE
    /\ main = "scan"
    /\ fs = FsIdle
    /\ rec = RecOff
    /\ api = ApiIdle
    /\ fg = FgIdle
    /\ reqs = 0
    /\ hist = HistInit
    /\ dOld \in DiffSnapshots
    /\ dNew \in DiffSnapshots
    /\ dOut = NoDiff

\* diff = diff_snapshots(old, new)
DiffApply ==
    /\ ~dOut.done
    /\ dOut' = [done |-> TRUE] @@ diff_snapshots(dOld, dNew)
    /\ UNCHANGED <<storeVars, memory_lock, stop_event, main, fs, rec, api, fg,
                   reqs, hist, dOld, dNew>>

SpecDiff == InitDiff /\ [][DiffApply]_vars

\* --------------------------------------- the conversation store on its own

\* The application serves, a store of conversations 0..MaxId is there, and
\* only POST /conversation and DELETE /conversation/{id} are requested.
InitStore ==
    /\ convFiles = CreatedConvs
    /\ memFiles = CreatedMems
    /\ globalMem = [facts |-> <<>>, preferences |-> <<>>]
    /\ memory_lock = "free"
    /\ stop_event = FALSE
    /\ main = "serving"
    /\ fs = [FsIdle EXCEPT !.pc = "done"]
    /\ rec = RecOff
    /\ api = ApiIdle
    /\ fg = FgIdle
    /\ reqs = MaxStoreRequests
    /\ hist = HistInit
    /\ dOld = <<>> /\ dNew = <<>> /\ dOut = NoDiff

NextStore ==
    \/ CreateBegin \/ CreateSaveConv \/ CreateSaveMem
    \/ DeleteBegin \/ DeleteFiles
    \/ StrayWrite

SpecStore == InitStore /\ [][NextStore]_vars

\* ------------------------------------------------------------------ claims

\* C7: for any two snapshots A and B, diff_snapshots(A, B) has added =
\* keys(B) - keys(A), removed = keys(A) - keys(B), modified = the common
\* keys whose hash differs; the three sets are pairwise disjoint, their
\* union is exactly the names whose presence or hash differs between A and
\* B, and diff_snapshots(A, A) has all three sets empty.
C7_DiffPartitions ==
    dOut.done =>
        /\ \A f \in DiffNames :
              /\ f \in dOut.added <=> (f \in DOMAIN dNew /\ f \notin DOMAIN dOld)
              /\ f \in dOut.removed <=> (f \in DOMAIN dOld /\ f \notin DOMAIN dNew)
              /\ f \in dOut.modified <=>
                    /\ f \in DOMAIN dOld /\ f \in DOMAIN dNew
                    /\ dOld[f].hash # dNew[f].hash
        /\ dOut.added \cap dOut.removed = {}
        /\ dOut.added \cap dOut.modified = {}
        /\ dOut.removed \cap dOut.modified = {}
        /\ dOut.added \cup dOut.removed \cup dOut.modified =
              {f \in DiffNames :
                  \/ (f \in DOMAIN dOld) # (f \in DOMAIN dNew)
                  \/ /\ f \in DOMAIN dOld /\ f \in DOMAIN dNew
                     /\ dOld[f].hash # dNew[f].hash}
        /\ dOld = dNew =>
              dOut.added = {} /\ dOut.removed = {} /\ dOut.modified = {}

\* A diff with a file added, a file removed, a file modified, and a file
\* whose size differs while its hash does not.
C7_Witness ==
    /\ dOut.done
    /\ dOut.added = {StrayName}
    /\ dOut.removed = {conv_path(1)}
    /\ dOut.modified = {}
    /\ conv_path(0) \in DOMAIN dOld /\ conv_path(0) \in DOMAIN dNew
    /\ dOld[conv_path(0)].hash = dNew[conv_path(0)].hash
    /\ dOld[conv_path(0)].size # dNew[conv_path(0)].size

\* The IDs c for which a transcript conv_<c>.json exists.
TranscriptIds(dir) ==
    {c \in 0..(MaxId + MaxStoreRequests + 1) : conv_path(c) \in DOMAIN dir}

\* C8: the ID create takes is max(IDs of the existing transcripts) + 1, or
\* 0 when no transcript exists: it is never the ID of an existing
\* transcript and it is above every existing ID, so a deleted ID is not
\* taken again while a conversation with a larger-or-equal ID remains; it
\* is 0 only when no conversation is left.
C8_NextIdAboveExisting ==
    [][(api.pc = "idle" /\ api'.pc = "create_conv") =>
          LET ids == TranscriptIds(convFiles) IN
          /\ api'.conv_id \notin ids
          /\ \A c \in ids : api'.conv_id > c
          /\ ids = {} <=> api'.conv_id = 0
          /\ ids # {} => (api'.conv_id - 1) \in ids]_vars

\* Conversations 0 and 1 existed, 0 was deleted, and create took ID 2.
C8_Witness ==
    /\ api.pc = "create_conv"
    /\ api.conv_id = 2
    /\ TranscriptIds(convFiles) = {1}
    /\ StrayName \in DOMAIN convFiles

\* C1: in every reachable state the persisted global fact sequence is
\* strictly sorted and holds no fact twice.
C1_FactsStrictlySorted ==
    \A i, j \in 1..Len(globalMem.facts) :
        i < j => globalMem.facts[i] < globalMem.facts[j]

\* The actors about to write, or writing, a Memory Store record.
MemWriters ==
    {a \in {"main", "rec", "api", "fg"} :
        \/ a = "main" /\ fs.pc = "save"
        \/ a = "rec" /\ rec.pc = "save"
        \/ a = "fg" /\ fg.pc = "save_mem"
        \/ a = "api" /\ api.pc \in {"create_mem", "del", "glob_save", "note_save"}}

\* C2: every write of a Memory Store record, by any actor, happens only
\* while that actor holds memory_lock, so no two such writes are in
\* progress at the same time.
C2_WritesUnderLock ==
    /\ \A a \in MemWriters : memory_lock = a
    /\ Cardinality(MemWriters) <= 1

\* C3: no actor holds memory_lock while an oracle call of its own is
\* outstanding: the reconciler, the full scan and the deferred task take
\* the lock only after the oracle returned and hold it only around their
\* final save.
C3_NoLockAcrossOracle ==
    /\ rec.pc = "oracle" => memory_lock # "rec"
    /\ fs.pc = "oracle" => memory_lock # "main"
    /\ fg.pc \in {"stream", "oracle"} => memory_lock # "fg"
    /\ memory_lock = "rec" => rec.pc = "save"
    /\ memory_lock = "main" => fs.pc = "save"
    /\ memory_lock = "fg" => fg.pc = "save_mem"

\* The reconciler holds the lock for its save while the deferred task's
\* oracle call is outstanding.
C3_Witness ==
    /\ rec.pc = "save" /\ memory_lock = "rec"
    /\ fg.pc = "oracle"

\* C4: if the oracle call raises while the reconciler processes a changed
\* transcript, the reconciler writes nothing to that conversation's memory
\* record in that pass: the failing step changes no stored record and moves
\* to the next file, and the only record the reconciler ever locks and
\* saves is the loaded one with the summary the oracle returned.
C4_OracleFailureWritesNothing ==
    /\ [](rec.pc \in {"lock", "save"} =>
            /\ rec.mem.summary = Summarize(rec.msgs)
            /\ rec.conv_id \notin hist.raised)
    /\ [][RecOracleRaise =>
            /\ memFiles' = memFiles /\ globalMem' = globalMem
            /\ rec'.pc = "for" /\ rec'.i = rec.i + 1
            /\ rec'.changed = rec.changed]_vars

\* The oracle call for the one changed file raised, and that
\* conversation's record is still the deferred task's summary with the
\* note appended to it since.
C4_Witness ==
    /\ rec.pc = "for" /\ rec.i = 2 /\ Len(rec.changed) = 1
    /\ hist.raised = {ParseConvId(rec.changed[1]).val}
    /\ rec.changed[1] \in DOMAIN memFiles
    /\ memFiles[rec.changed[1]] =
          [summary |-> TitleSummary(MaxMsgs + 1), notes |-> <<NoteText>>]

\* C5: a failure on one changed file (the oracle raises, or the ID in the
\* file name does not parse) does not end the pass: the for loop is left
\* before the end of the changed list only by the break on stop_event, and
\* the reconciler's while loop ends only when stop_event is set.
C5_FailuresIsolated ==
    /\ (rec.pc = "retain" /\ rec.i <= Len(rec.changed)) => stop_event
    /\ rec.pc = "done" => stop_event

\* A pass over three changed files went through all of them without a
\* stop: the first has a name that does not parse, the oracle raised for
\* the second, and the summary of the third was saved.
C5_Witness ==
    /\ rec.pc = "retain" /\ ~stop_event
    /\ Len(rec.changed) = 3 /\ rec.i = 4
    /\ ~ParseConvId(rec.changed[1]).ok
    /\ hist.raised = {ParseConvId(rec.changed[2]).val}
    /\ rec.changed[3] \in DOMAIN memFiles
    /\ memFiles[rec.changed[3]].summary.by = "summarize"

\* C6 as stated: if no transcript file was created, changed or removed
\* since the end of the last completed pass, the next scan computes an
\* empty changed list.
C6_QuietSincePassEnd ==
    [][(rec.pc = "hash" /\ rec'.pc = "for" /\ ~hist.dirty) =>
          rec'.changed = <<>>]_vars

\* C6: if the snapshot a pass takes shows no file that differs from the
\* snapshot the previous scan took, the pass computes an empty changed
\* list; and the reconciler loads, calls the oracle and saves only for an
\* entry of a changed list, so that such a pass calls no oracle and writes
\* no memory record.
C6_QuietBetweenSnapshots ==
    /\ [](rec.pc \in {"load_conv", "load_mem", "oracle", "lock", "save"} =>
             rec.i \in 1..Len(rec.changed))
    /\ [][(rec.pc = "hash" /\ rec'.pc = "for" /\ rec'.cur = hist.atScan) =>
             rec'.changed = <<>>]_vars

\* The second scan found the directory as the first scan had found it,
\* the first scan having found a changed file.
C6_Witness ==
    /\ rec.pc = "for" /\ rec.ticks = 1
    /\ rec.changed = <<>>
    /\ rec.cur = rec.last
    /\ StrayName \in DOMAIN rec.cur
    /\ \E f \in DOMAIN memFiles : memFiles[f].summary = Summarize(1)

\* s is a prefix of t.
IsPrefix(s, t) == Len(s) <= Len(t) /\ SubSeq(t, 1, Len(s)) = s

\* C9: the notes of a conversation's memory record only grow: a note once
\* appended stays, in order, through every save of the reconciler and of
\* the deferred task, as long as the conversation is not deleted.
C9_NotesAppendOnly ==
    [][\A f \in DOMAIN memFiles \cap DOMAIN memFiles' :
          IsPrefix(memFiles[f].notes, memFiles'[f].notes)]_vars

\* C10: a per-conversation memory record for ID c exists only if a
\* transcript with ID c exists.
C10_MemoryHasTranscript ==
    \A c \in 0..(MaxId + MaxRequests + 1) :
        conv_memory_path(c) \in DOMAIN memFiles => conv_path(c) \in DOMAIN convFiles

\* C11: if stop_event is set while the reconciler is in its wait between
\* two ticks, the reconciler leaves the wait, finds the loop condition
\* false and ends: it takes no further snapshot, calls no oracle and writes
\* no memory record; the pass before the wait was completed (its changed
\* list is spent, its baseline retained, the lock not held).
C11_StopWhileWaiting ==
    /\ [](hist.stopIdle => rec.pc \in {"wait", "loop", "done"})
    /\ [](rec.pc \in {"wait", "loop", "done"} =>
            rec.changed = <<>> /\ rec.cur = <<>> /\ memory_lock # "rec")
    /\ [][(hist.stopIdle /\ rec' # rec) =>
            /\ storeVars' = storeVars /\ memory_lock' = memory_lock
            /\ rec'.last = rec.last]_vars
    /\ hist.stopIdle ~> (rec.pc = "done")

\* stop_event was set during the wait that followed a pass which saved a
\* summary, and the reconciler has ended.
C11_Witness ==
    /\ rec.pc = "done" /\ hist.stopIdle
    /\ \E f \in DOMAIN memFiles : memFiles[f].summary.by = "summarize"

\* C12: the reconciler looks at stop_event before each conversation of a
\* pass: once it is set, the reconciler starts the load of no further
\* conversation and no further tick (the step in flight runs to its save),
\* and, its oracle calls returning and the lock being released, it
\* eventually ends its loop.
C12_StopBetweenConversations ==
    /\ [][stop_event =>
            /\ (rec'.pc = "load_conv" => rec.pc = "load_conv")
            /\ (rec'.pc = "check" => rec.pc = "check")
            /\ (rec.pc = "for" /\ rec' # rec => rec'.pc = "retain")]_vars
    /\ (stop_event /\ rec.pc \in {"for", "load_conv", "load_mem", "oracle",
                                   "lock", "save", "retain"})
          ~> (rec.pc = "done")

\* stop_event was set while the first of two changed conversations was
\* processed: its summary was saved and the second was not started.
C12_Witness ==
    /\ rec.pc = "retain" /\ stop_event
    /\ Len(rec.changed) = 2 /\ rec.i = 2
    /\ ParseConvId(rec.changed[1]).ok /\ ParseConvId(rec.changed[2]).ok
    /\ rec.changed[1] \in DOMAIN memFiles
    /\ memFiles[rec.changed[1]].summary.by = "summarize"
    /\ rec.changed[2] \in DOMAIN memFiles
    /\ memFiles[rec.changed[2]].summary.by # "summarize"

\* C13: at the end of a pass in which every extraction succeeded, every
\* changed conversation that still exists has a stored summary the
\* reconciler derived, and derived from the transcript as it now is when
\* the transcript is as the pass's snapshot saw it; unless the deferred
\* task saved that conversation's memory record while the pass ran.
C13_AtMostStale ==
    (/\ rec.pc = "retain" /\ rec.i > Len(rec.changed)
     /\ hist.raised = {}
     /\ \A k \in 1..Len(rec.changed) : ParseConvId(rec.changed[k]).ok) =>
        \A k \in 1..Len(rec.changed) :
            LET f == rec.changed[k]
                c == ParseConvId(f).val
                path == conv_memory_path(c)
            IN  (f \in DOMAIN convFiles /\ c \notin hist.raced) =>
                    /\ path \in DOMAIN memFiles
                    /\ memFiles[path].summary.by = "summarize"
                    /\ file_hash(convFiles[f]) = rec.cur[f].hash =>
                          memFiles[path].summary.of = convFiles[f].msgs

\* C14: the reconciler reads a conversation's memory record without the
\* lock, before its oracle call, and its save under the lock stores that
\* record with the new summary whatever the file holds by then, as the
\* deferred task's save stores its own record: the later save wins, and an
\* update written between the read and the save is gone.
C14_LaterSaveWins ==
    /\ [](rec.pc \in {"load_mem", "oracle"} => memory_lock # "rec")
    /\ [][(rec.pc = "save" /\ rec'.pc # "save") =>
            /\ memFiles'[conv_memory_path(rec.conv_id)] = rec.mem
            /\ rec.mem.summary = Summarize(rec.msgs)]_vars
    /\ [][(fg.pc = "save_mem" /\ fg'.pc # "save_mem") =>
            memFiles'[conv_memory_path(fg.conv_id)] =
                [summary |-> fg.meta.summary, notes |-> <<>>]]_vars

\* The reconciler holds the lock at its save with the record it read
\* before a note was appended: the stored record has the note, the
\* reconciler's has not.
C14_Witness ==
    /\ rec.pc = "save" /\ memory_lock = "rec"
    /\ rec.mem.notes = <<>>
    /\ conv_memory_path(rec.conv_id) \in DOMAIN memFiles
    /\ memFiles[conv_memory_path(rec.conv_id)].notes = <<NoteText>>

\* C15: the facts the startup full scan saves are exactly the sorted union
\* of the facts of the replies that were folded in without an exception: a
\* reply that is malformed in any way, a facts list with a preferences
\* field that is no object included, contributes no fact.
C15_FullScanFacts ==
    fs.pc \in {"lock", "save"} => FsRecord.facts = sorted(hist.okFacts)

\* C16: when generate_title_and_summary raises in the deferred task, the
\* task goes on: it saves the transcript with the messages of the request
\* and the assistant reply and with the title it loaded from the
\* transcript before the call, and it saves the conversation's memory
\* record with the empty summary.
C16_MetadataFailureDegrades ==
    /\ [][FgStart =>
            /\ fg'.msgs = fg.msgs + 1
            /\ fg'.title = TitleOf(load_json(convFiles, conv_path(fg.conv_id),
                                             NoTranscript))]_vars
    /\ [][FgOracleRaise =>
            /\ fg'.pc = "save_conv"
            /\ fg'.conv_id = fg.conv_id /\ fg'.msgs = fg.msgs
            /\ fg'.meta = [title |-> fg.title, summary |-> NoSummary]]_vars
    /\ [][(fg.pc = "save_conv" /\ fg'.pc # "save_conv") =>
            /\ fg'.pc = "lock" /\ fg'.meta = fg.meta
            /\ convFiles'[conv_path(fg.conv_id)] =
                  [title |-> fg.meta.title, msgs |-> fg.msgs]]_vars
    /\ [][(fg.pc = "lock" /\ fg'.pc # "lock") =>
            fg'.pc = "save_mem" /\ fg'.meta = fg.meta]_vars
    /\ [][(fg.pc = "save_mem" /\ fg'.pc # "save_mem") =>
            memFiles'[conv_memory_path(fg.conv_id)].summary = fg.meta.summary]_vars

\* The deferred task has ended after its fallback: conversation 0 keeps
\* the client's title with the reply appended, and its summary is empty.
C16_Witness ==
    /\ fg.pc = "idle"
    /\ conv_path(0) \in DOMAIN convFiles
    /\ convFiles[conv_path(0)] = [title |-> ClientTitle, msgs |-> MaxMsgs + 1]
    /\ conv_memory_path(0) \in DOMAIN memFiles
    /\ memFiles[conv_memory_path(0)] = BlankMemory
    /\ reqs = MaxRequests - 1

C18_ScanBecomesBaseline ==
    /\ rec.pc \in {"for", "load_conv", "load_mem", "oracle", "lock", "save",
                    "retain"} =>
          /\ rec.cur = hist.atScan
          /\ \A k \in 1..Len(rec.changed) :
                LET f == rec.changed[k]
                IN  /\ f \in DOMAIN rec.cur
                    /\ \/ f \notin DOMAIN rec.last
                       \/ rec.last[f].hash # rec.cur[f].hash
    /\ rec.pc \in {"loop", "check", "list", "hash", "wait", "done"} =>
          rec.last = hist.atScan

\* The oracle call for a conversation raised in the first pass; the
\* second scan finds its transcript with the same hash and nothing to do,
\* and its record has no summary of the reconciler.
C18_Witness ==
    /\ rec.pc = "for" /\ rec.ticks = 1
    /\ rec.changed = <<>>
    /\ \E c \in hist.failed :
          /\ conv_path(c) \in DOMAIN rec.cur
          /\ conv_path(c) \in DOMAIN rec.last
          /\ rec.cur[conv_path(c)].hash = rec.last[conv_path(c)].hash
          /\ conv_memory_path(c) \in DOMAIN memFiles
          /\ memFiles[conv_memory_path(c)].summary.by # "summarize"

\* C20: a tick that does not scan, because memory_lock was held or the
\* snapshot failed, leaves the baseline as it was, and the changed list of
\* a scan holds exactly the files of its snapshot that are not in the
\* baseline or whose hash differs from the baseline's: what changed
\* before a skipped tick is in the changed list of the next scan.
C20_SkippedTickKeepsBaseline ==
    /\ [][(rec.pc \in {"check", "hash"} /\ rec'.pc = "wait") =>
            rec'.last = rec.last]_vars
    /\ [](hist.skipped /\ rec.pc \in {"wait", "loop", "check", "list", "hash"}
            => rec.last = hist.atScan)
    /\ [][(rec.pc = "hash" /\ rec'.pc = "for") =>
            /\ rec'.last = rec.last
            /\ rec'.cur = snapshot_of(convFiles, rec.names)
            /\ {rec'.changed[k] : k \in 1..Len(rec'.changed)} =
                  {f \in DOMAIN rec'.cur :
                      \/ f \notin DOMAIN rec.last
                      \/ rec.last[f].hash # rec'.cur[f].hash}
            /\ Len(rec'.changed) =
                  Cardinality({rec'.changed[k] : k \in 1..Len(rec'.changed)})]_vars

\* The first tick was skipped; the scan of the next tick has in its
\* changed list the conversation created and the transcript rewritten
\* since the baseline was taken.
C20_Witness ==
    /\ rec.pc = "for" /\ rec.ticks = 1 /\ hist.skipped
    /\ rec.last = CreatedSnapshot
    /\ Len(rec.changed) = 2
    /\ rec.changed[1] = conv_path(MaxId + 1)
    /\ rec.changed[2] \in DOMAIN CreatedConvs

\* C19: a transcript whose message list is empty or absent, or whose file
\* is gone when the reconciler loads it, is passed over by the reconciler
\* and by the full scan: the step goes to the next file, no oracle call
\* is made for it, no record is written and no failure is recorded.
C19_EmptyTranscriptSkipped ==
    /\ [](rec.pc \in {"load_mem", "oracle", "lock", "save"} => rec.msgs > 0)
    /\ [][(/\ rec.pc = "load_conv" /\ rec' # rec
           /\ load_json(convFiles, rec.changed[rec.i], NoTranscript).msgs = 0) =>
            /\ rec'.pc = "for" /\ rec'.i = rec.i + 1
            /\ storeVars' = storeVars /\ hist'.raised = hist.raised]_vars
    /\ [][(/\ fs.pc = "next" /\ fs' # fs /\ fs.todo # <<>>
           /\ load_json(convFiles, Head(fs.todo), NoTranscript).msgs = 0) =>
            /\ fs'.pc = "next" /\ fs'.todo = Tail(fs.todo)
            /\ fs'.all_facts = fs.all_facts
            /\ storeVars' = storeVars /\ hist'.okFacts = hist.okFacts]_vars

\* No request was made, and the reconciler went over a changed list of
\* one, a transcript that is there with an empty message list: its record
\* is as it was.
C19_Witness ==
    /\ rec.pc = "for" /\ rec.i = 2 /\ Len(rec.changed) = 1
    /\ ParseConvId(rec.changed[1]).ok
    /\ rec.changed[1] \in DOMAIN convFiles
    /\ convFiles[rec.changed[1]].msgs = 0
    /\ rec.changed[1] \in DOMAIN memFiles
    /\ memFiles[rec.changed[1]] = BlankMemory
    /\ hist.raised = {} /\ reqs = MaxLiveRequests

====
